---- MODULE Spec2Model ----
(***************************************************************************)
(* Verification model of the 2.5D engine: the wall renderer                *)
(* (src/src/renderer.rs), the camera (src/src/camera.rs), the resampler    *)
(* and sharpener (src/src/scaler.rs) and the event driver                  *)
(* (src/src/main.rs).                                                      *)
(*                                                                         *)
(* Conventions.  A buffer is a row-major sequence, pixel (x, y) of a       *)
(* buffer of width w is element y*w + x + 1.  A colour word is a u32 kept  *)
(* as a natural number; intermediate u32 products are computed in two      *)
(* 16-bit limbs and wrap modulo 2^32 like the release build does.  An f32  *)
(* is a record [m, e] denoting m * 2^e with m < 2^24, and every operation  *)
(* on it rounds to a 24-bit significand (nearest, ties to even).           *)
(***************************************************************************)
EXTENDS Integers, Sequences, FiniteSets, TLC

----------------------------------------------------------------------------
(* Small arithmetic helpers.                                               *)

RECURSIVE Pow2(_)
Pow2(n) == IF n = 0 THEN 1 ELSE 2 * Pow2(n - 1)

Min(a, b) == IF a < b THEN a ELSE b
Max(a, b) == IF a > b THEN a ELSE b
Abs(a) == IF a < 0 THEN 0 - a ELSE a

\* i32::clamp / isize::clamp
Clamp(v, lo, hi) == IF v < lo THEN lo ELSE IF v > hi THEN hi ELSE v

\* floor(n / d) for d > 0 and any integer n
FloorDiv(n, d) == IF n >= 0 THEN n \div d ELSE 0 - ((0 - n + d - 1) \div d)

----------------------------------------------------------------------------
(* Packed colour words: byte0 = blue, byte1 = green, byte2 = red.          *)

Byte0(c) == c % 256
Byte1(c) == (c \div 256) % 256
Byte2(c) == (c \div 65536) % 256
Byte3(c) == c \div 16777216

pack_rgb(r, g, b) == b + g * 256 + r * 65536

\* u32 words as two 16-bit limbs, arithmetic wrapping modulo 2^32
U32(hi, lo) == [hi |-> hi, lo |-> lo]

MulU32(x, k) ==
    LET plo == x.lo * k
    IN  U32((x.hi * k + plo \div 65536) % 65536, plo % 65536)

AddU32(x, y) ==
    LET slo == x.lo + y.lo
    IN  U32((x.hi + y.hi + slo \div 65536) % 65536, slo % 65536)

\* x >> 8, a value below 2^24
Shr8U32(x) == x.hi * 256 + x.lo \div 256

\* the weights of the two operands no longer sum to 256
lerp_color_u32_inv255(a, b, w256) ==
    LET inv == 255 - w256 + (IF w256 = 256 THEN 1 ELSE 0)
        rb  == Shr8U32(AddU32(MulU32(U32(Byte2(a), Byte0(a)), inv),
                              MulU32(U32(Byte2(b), Byte0(b)), w256)))
        g   == Shr8U32(AddU32(MulU32(U32(0, Byte1(a) * 256), inv),
                              MulU32(U32(0, Byte1(b) * 256), w256)))
    IN  (Byte2(rb) * 65536 + Byte0(rb)) + Byte1(g) * 256

\* the three channels go through one multiply-add (mask 0x00FFFFFF)
lerp_color_u32_one_word(a, b, w256) ==
    LET inv == 256 - w256
        rgb == Shr8U32(AddU32(MulU32(U32(Byte2(a), Byte1(a) * 256 + Byte0(a)), inv),
                              MulU32(U32(Byte2(b), Byte1(b) * 256 + Byte0(b)), w256)))
    IN  rgb % 16777216

\* (a & 0x00FF00FF) * inv + (b & 0x00FF00FF) * w256 before any wrap, as the
\* sum's bits from bit 16 up and its low 16 bits
lerp_rb_sum(a, b, w256) ==
    LET inv == 256 - w256
        low == Byte0(a) * inv + Byte0(b) * w256
    IN  [hi |-> Byte2(a) * inv + Byte2(b) * w256 + low \div 65536, lo |-> low % 65536]

lerp_color_u32(a, b, w256) ==
    LET inv == 256 - w256
        rb  == Shr8U32(AddU32(MulU32(U32(Byte2(a), Byte0(a)), inv),
                              MulU32(U32(Byte2(b), Byte0(b)), w256)))
        g   == Shr8U32(AddU32(MulU32(U32(0, Byte1(a) * 256), inv),
                              MulU32(U32(0, Byte1(b) * 256), w256)))
    IN  (Byte2(rb) * 65536 + Byte0(rb)) + Byte1(g) * 256

\* a negative sum is folded to its magnitude instead of clamped to 0
sat8_magnitude(v) == Clamp(Abs(v), 0, 255)

sat8(v) == Clamp(v, 0, 255)

----------------------------------------------------------------------------
(* f32 arithmetic on non-negative values.  [m, e] denotes m * 2^e; results *)
(* are kept with an odd significand below 2^24 (or m = 0, e = 0).          *)

RECURSIVE BitLen(_)
BitLen(n) == IF n = 0 THEN 0 ELSE 1 + BitLen(n \div 2)

\* m >> k without overflowing the shift
ShiftRight(m, k) == IF k >= 31 THEN 0 ELSE m \div Pow2(k)

RECURSIVE F32Canon(_)
F32Canon(a) ==
    IF a.m = 0 THEN [m |-> 0, e |-> 0]
    ELSE IF a.m % 2 = 0 THEN F32Canon([m |-> a.m \div 2, e |-> a.e + 1])
    ELSE a

\* round m * 2^e (plus a sticky tail below the last bit) to 24 significant
\* bits, nearest with ties to even
F32RoundSticky(m, e, sticky) ==
    LET k == BitLen(m) - 24
    IN  IF k <= 0 THEN F32Canon([m |-> m, e |-> e])
        ELSE LET q    == m \div Pow2(k)
                 r    == m % Pow2(k)
                 half == Pow2(k - 1)
                 up   == \/ r > half
                         \/ r = half /\ sticky
                         \/ r = half /\ ~sticky /\ q % 2 = 1
             IN  F32Canon([m |-> IF up THEN q + 1 ELSE q, e |-> e + k])

F32Round(m, e) == F32RoundSticky(m, e, FALSE)

\* `n as f32` for an unsigned integer
FromUsize(n) == F32Round(n, 0)

\* the significand shifted left to 24 bits
F32Norm(a) ==
    LET s == 24 - BitLen(a.m) IN [m |-> a.m * Pow2(s), e |-> a.e - s]

\* n further quotient bits of r / d by long division: <<quotient, remainder>>
RECURSIVE LongDiv(_, _, _, _)
LongDiv(q, r, d, n) ==
    IF n = 0 THEN <<q, r>>
    ELSE IF 2 * r >= d THEN LongDiv(2 * q + 1, 2 * r - d, d, n - 1)
         ELSE LongDiv(2 * q, 2 * r, d, n - 1)

\* a / b, b > 0: 26 quotient bits and a sticky bit decide the rounding
F32Div(a, b) ==
    IF a.m = 0 THEN [m |-> 0, e |-> 0]
    ELSE LET na == F32Norm(a)
             nb == F32Norm(b)
             qr == LongDiv(na.m \div nb.m, na.m % nb.m, nb.m, 26)
         IN  F32RoundSticky(qr[1], na.e - nb.e - 26, qr[2] # 0)

\* a * b; the exact product of the two odd significands must fit the
\* evaluator's integers, which it does when one factor is a small integer
F32Mul(a, b) == F32Round(a.m * b.m, a.e + b.e)

\* a - b for a >= b
F32Sub(a, b) ==
    LET emin == Min(a.e, b.e)
    IN  F32Round(a.m * Pow2(a.e - emin) - b.m * Pow2(b.e - emin), emin)

\* f32::floor followed by `as isize`
F32Floor(a) == IF a.e >= 0 THEN a.m * Pow2(a.e) ELSE ShiftRight(a.m, 0 - a.e)

\* f32::round (half away from zero) followed by an integer cast
F32RoundToInt(a) ==
    IF a.e >= 0 THEN a.m * Pow2(a.e)
    ELSE IF 0 - a.e >= 26 THEN 0
    ELSE (a.m + Pow2(0 - a.e - 1)) \div Pow2(0 - a.e)

----------------------------------------------------------------------------
(* scaler.rs: the resampling LUT.                                          *)

\* one iteration of either loop of build_scale_lut: destination index x of
\* an axis scaled from src_size to dst_size
LutEntry(x, dst_size, src_size) ==
    LET sx     == F32Div(FromUsize(src_size), FromUsize(dst_size))
        fx     == F32Mul(FromUsize(x), sx)
        x0_val == F32Floor(fx)
        x1_val == Clamp(x0_val + 1, 0, src_size - 1)
        frac   == F32Sub(fx, FromUsize(x0_val))
        w      == F32RoundToInt([m |-> frac.m, e |-> frac.e + 8])
    IN  [i0 |-> x0_val, i1 |-> x1_val, w |-> Min(w, 65535)]

build_scale_lut(dst_w, dst_h, src_w, src_h) ==
    [x0 |-> [x \in 1..dst_w |-> LutEntry(x - 1, dst_w, src_w).i0],
     x1 |-> [x \in 1..dst_w |-> LutEntry(x - 1, dst_w, src_w).i1],
     wx |-> [x \in 1..dst_w |-> LutEntry(x - 1, dst_w, src_w).w],
     y0 |-> [y \in 1..dst_h |-> LutEntry(y - 1, dst_h, src_h).i0],
     y1 |-> [y \in 1..dst_h |-> LutEntry(y - 1, dst_h, src_h).i1],
     wy |-> [y \in 1..dst_h |-> LutEntry(y - 1, dst_h, src_h).w]]

\* ScaleLut::empty
ScaleLutEmpty ==
    [x0 |-> <<>>, x1 |-> <<>>, wx |-> <<>>, y0 |-> <<>>, y1 |-> <<>>, wy |-> <<>>]

----------------------------------------------------------------------------
(* scaler.rs: the bilinear blit and the sharpen filter, as functions of    *)
(* the whole buffer (the result of running the rows one after another).    *)

\* the body of the inner loop of blit_bilinear_stretch: destination pixel
\* (x, y), both 0-based
blit_pixel(src, sw, lut, x, y) ==
    LET y0   == lut.y0[y + 1]
        y1   == lut.y1[y + 1]
        wy   == lut.wy[y + 1]
        row0 == y0 * sw
        row1 == y1 * sw
        x0   == lut.x0[x + 1]
        x1   == lut.x1[x + 1]
        wx   == lut.wx[x + 1]
        c00  == src[row0 + x0 + 1]
        c10  == src[row0 + x1 + 1]
        c01  == src[row1 + x0 + 1]
        c11  == src[row1 + x1 + 1]
        top  == lerp_color_u32(c00, c10, wx)
        bot  == lerp_color_u32(c01, c11, wx)
    IN  lerp_color_u32(top, bot, wy)

blit_bilinear_stretch(dst, dw, src, sw, lut) ==
    [i \in 1..Len(dst) |-> blit_pixel(src, sw, lut, (i - 1) % dw, (i - 1) \div dw)]

\* the kernel's centre weight is 4 instead of 5
sharpen_pixel_centre4(src, w, h, x, y) ==
    IF y = 0 \/ y = h - 1 \/ x = 0 \/ x = w - 1 THEN src[y * w + x + 1]
    ELSE LET c  == src[y * w + x + 1]
             n  == src[(y - 1) * w + x + 1]
             s  == src[(y + 1) * w + x + 1]
             e  == src[y * w + (x + 1) + 1]
             wv == src[y * w + (x - 1) + 1]
             rb == 4 * Byte2(c) - (Byte2(n) + Byte2(s) + Byte2(e) + Byte2(wv))
             gb == 4 * Byte1(c) - (Byte1(n) + Byte1(s) + Byte1(e) + Byte1(wv))
             bb == 4 * Byte0(c) - (Byte0(n) + Byte0(s) + Byte0(e) + Byte0(wv))
         IN  sat8(rb) * 65536 + sat8(gb) * 256 + sat8(bb)

\* the right border column is taken for interior (x = w instead of x = w - 1)
sharpen_pixel_right_border(src, w, h, x, y) ==
    IF y = 0 \/ y = h - 1 \/ x = 0 \/ x = w THEN src[y * w + x + 1]
    ELSE LET c  == src[y * w + x + 1]
             n  == src[(y - 1) * w + x + 1]
             s  == src[(y + 1) * w + x + 1]
             e  == src[y * w + (x + 1) + 1]
             wv == src[y * w + (x - 1) + 1]
             rb == 5 * Byte2(c) - (Byte2(n) + Byte2(s) + Byte2(e) + Byte2(wv))
             gb == 5 * Byte1(c) - (Byte1(n) + Byte1(s) + Byte1(e) + Byte1(wv))
             bb == 5 * Byte0(c) - (Byte0(n) + Byte0(s) + Byte0(e) + Byte0(wv))
         IN  sat8(rb) * 65536 + sat8(gb) * 256 + sat8(bb)

\* the value the sharpen row worker of row y stores at column x, read from
\* the snapshot src
sharpen_pixel(src, w, h, x, y) ==
    IF y = 0 \/ y = h - 1 \/ x = 0 \/ x = w - 1 THEN src[y * w + x + 1]
    ELSE LET c  == src[y * w + x + 1]
             n  == src[(y - 1) * w + x + 1]
             s  == src[(y + 1) * w + x + 1]
             e  == src[y * w + (x + 1) + 1]
             wv == src[y * w + (x - 1) + 1]
             rb == 5 * Byte2(c) - (Byte2(n) + Byte2(s) + Byte2(e) + Byte2(wv))
             gb == 5 * Byte1(c) - (Byte1(n) + Byte1(s) + Byte1(e) + Byte1(wv))
             bb == 5 * Byte0(c) - (Byte0(n) + Byte0(s) + Byte0(e) + Byte0(wv))
         IN  sat8(rb) * 65536 + sat8(gb) * 256 + sat8(bb)

sharpen3x3_cross_inplace(dst, w, h) ==
    IF w < 3 \/ h < 3 THEN dst
    ELSE [i \in 1..Len(dst) |-> sharpen_pixel(dst, w, h, (i - 1) % w, (i - 1) \div w)]

----------------------------------------------------------------------------
(* State.  Each specification below exercises one part of the program and  *)
(* leaves the others at rest.                                              *)

VARIABLES
    \* scaler.rs
    blend,      \* lerp_color_u32: its arguments and what it returned
    lut_q,      \* build_scale_lut: the axis sizes and the loop index at hand
    lut_e,      \* build_scale_lut: the entry stored for that index
    src,        \* the source buffer of the blit (fb_small)
    sw,         \* its width
    lut,        \* the ScaleLut handed to the blit
    dst,        \* the destination buffer (the surface buffer)
    dw,         \* its width
    dh,         \* its height
    snap,       \* sharpen: `src`, the snapshot dst.to_vec()
    cursor,     \* per row worker: how many pixels of its row it has stored
    stage,      \* where the resample/sharpen pipeline stands
    \* main.rs
    app,        \* the App struct
    frame,      \* the arguments of the last render_frame / blit calls
    \* renderer.rs
    buf,        \* render_frame: the buffer being painted
    world,      \* the sectors and walls
    camera,     \* the camera
    ceil_clip,  \* per column: the topmost row a wall has filled
    floor_clip, \* per column: the bottommost row a wall has filled
    order,      \* the wall indices, sorted for drawing
    oi,         \* the position in order of the next wall to draw
    rpc,        \* where render_frame stands
    spans       \* per wall: what its draw_solid_wall call did

scalerVars == <<blend, lut_q, lut_e, src, sw, lut, dst, dw, dh, snap, cursor, stage>>
appVars == <<app, frame>>
renderVars == <<buf, world, camera, ceil_clip, floor_clip, order, oi, rpc, spans>>
vars == <<scalerVars, appVars, renderVars>>

NoEntry == [i0 |-> 0 - 1, i1 |-> 0 - 1, w |-> 0 - 1]
None == <<>>
NoFrame == [rendered |-> FALSE]
NoBlend == [a |-> 0, b |-> 0, w256 |-> 0, out |-> 0 - 1, overflow |-> FALSE]

ScalerIdle ==
    /\ blend = NoBlend
    /\ lut_q = [dst |-> 0, src |-> 0, x |-> 0]
    /\ lut_e = NoEntry
    /\ src = <<>> /\ sw = 0 /\ lut = ScaleLutEmpty
    /\ dst = <<>> /\ dw = 0 /\ dh = 0 /\ snap = <<>>
    /\ cursor = <<>> /\ stage = "idle"

AppIdle ==
    /\ app = [window |-> None] /\ frame = NoFrame

RenderIdle ==
    /\ buf = <<>> /\ world = [sectors |-> <<>>, walls |-> <<>>]
    /\ camera = [pos |-> <<0, 0>>, yaw |-> 0, eye_z |-> 0, fx |-> 0, fy |-> 0]
    /\ ceil_clip = <<>> /\ floor_clip = <<>>
    /\ order = <<>> /\ oi = 0 /\ rpc = "idle" /\ spans = <<>>

(* Bounds of the inputs. *)
MaxLutSize == 6
MaxSrc == 2
MaxDst == 3
MaxW == 4
MaxH == 4
PatMax == 1

\* colour words: black, white, the renderer's sky and wall colours, and two
\* words with a non-zero byte3
Palette ==
    <<0, 16777215, pack_rgb(30, 30, 70), pack_rgb(200, 200, 200),
      16777216 + pack_rgb(250, 180, 180), 2130706432 + pack_rgb(1, 128, 255)>>

\* a buffer of w * h pixels whose pixel (x, y) is Palette[(a*x + b*y + d*x*y + c) mod n]
Pattern(w, h, a, b, d, c) ==
    [i \in 1..(w * h) |->
        LET x == (i - 1) % w
            y == (i - 1) \div w
        IN  Palette[((a * x + b * y + d * x * y + c) % Len(Palette)) + 1]]

Uniform(w, h, c) == [i \in 1..(w * h) |-> c]

IsUniform(b, c) == \A i \in 1..Len(b) : b[i] = c

Weights == <<0, 77, 255, 256>>

\* an arbitrary LUT: any neighbour indices inside the source, any weights
AnyLut(d_w, d_h, s_w, s_h, p, q, k) ==
    [x0 |-> [x \in 1..d_w |-> (p + x) % s_w],
     x1 |-> [x \in 1..d_w |-> (q + 2 * x) % s_w],
     wx |-> [x \in 1..d_w |-> Weights[((k + x) % Len(Weights)) + 1]],
     y0 |-> [y \in 1..d_h |-> (q + y) % s_h],
     y1 |-> [y \in 1..d_h |-> (p + 2 * y) % s_h],
     wy |-> [y \in 1..d_h |-> Weights[((k + 2 * y + 1) % Len(Weights)) + 1]]]

LutInRange(l, d_w, d_h, s_w, s_h) ==
    /\ Len(l.x0) = d_w /\ Len(l.x1) = d_w /\ Len(l.wx) = d_w
    /\ Len(l.y0) = d_h /\ Len(l.y1) = d_h /\ Len(l.wy) = d_h
    /\ \A x \in 1..d_w : l.x0[x] \in 0..(s_w - 1) /\ l.x1[x] \in 0..(s_w - 1)
                         /\ l.wx[x] \in 0..256
    /\ \A y \in 1..d_h : l.y0[y] \in 0..(s_h - 1) /\ l.y1[y] \in 0..(s_h - 1)
                         /\ l.wy[y] \in 0..256

----------------------------------------------------------------------------
(* build_scale_lut, one loop iteration at a time.                          *)

\* the sizes tried: small ones, a pair whose ratio 26/22 is rounded down by
\* the f32 division, and the first ones whose indices no longer fit the
\* 24-bit significand of an f32
LutSizes == (1..MaxLutSize) \cup {22, 26} \cup {Pow2(24) + 2, Pow2(24) + 4}

LutIndices(n) ==
    {x \in (0..MaxLutSize) \cup {11, 21} \cup ((Pow2(24) - 1)..(Pow2(24) + 3)) : x < n}

InitLut ==
    /\ \E d \in LutSizes, s \in LutSizes :
         \E x \in LutIndices(d) :
            /\ (d > Pow2(24) \/ s > Pow2(24)) => d = s
            /\ lut_q = [dst |-> d, src |-> s, x |-> x]
    /\ lut_e = NoEntry
    /\ src = <<>> /\ sw = 0 /\ lut = ScaleLutEmpty
    /\ dst = <<>> /\ dw = 0 /\ dh = 0 /\ snap = <<>>
    /\ cursor = <<>> /\ stage = "lut"
    /\ blend = NoBlend
    /\ AppIdle /\ RenderIdle

\* the loop body at index lut_q.x stores that index's entry
LutStore ==
    /\ stage = "lut"
    /\ lut_e = NoEntry
    /\ lut_e' = LutEntry(lut_q.x, lut_q.dst, lut_q.src)
    /\ stage' = "lut_done"
    /\ UNCHANGED <<blend, lut_q, src, sw, lut, dst, dw, dh, snap, cursor, appVars, renderVars>>

----------------------------------------------------------------------------
(* lerp_color_u32 as a single call.                                        *)

W256_MAX == 256

\* colour words with byte3 = 0: the corners of the colour cube, the
\* renderer's colours, and words with mixed bytes
LerpWords ==
    {pack_rgb(r, g, b) : r \in {0, 255}, g \in {0, 255}, b \in {0, 255}}
        \cup {pack_rgb(30, 30, 70), pack_rgb(180, 250, 180), pack_rgb(1, 128, 254),
              pack_rgb(127, 255, 1)}

InitLerp ==
    /\ \E a \in LerpWords, b \in LerpWords, w \in 0..W256_MAX :
          blend = [a |-> a, b |-> b, w256 |-> w, out |-> 0 - 1, overflow |-> FALSE]
    /\ lut_q = [dst |-> 0, src |-> 0, x |-> 0] /\ lut_e = NoEntry
    /\ src = <<>> /\ sw = 0 /\ lut = ScaleLutEmpty
    /\ dst = <<>> /\ dw = 0 /\ dh = 0 /\ snap = <<>>
    /\ cursor = <<>> /\ stage = "lerp_call"
    /\ AppIdle /\ RenderIdle

\* the call; overflow records whether the packed red/blue sum left 32 bits
Lerp ==
    /\ stage = "lerp_call"
    /\ blend' = [blend EXCEPT
                    !.out = lerp_color_u32(blend.a, blend.b, blend.w256),
                    !.overflow = lerp_rb_sum(blend.a, blend.b, blend.w256).hi >= 65536]
    /\ stage' = "lerp_done"
    /\ UNCHANGED <<lut_q, lut_e, src, sw, lut, dst, dw, dh, snap, cursor, appVars, renderVars>>

----------------------------------------------------------------------------
(* blit_bilinear_stretch and sharpen3x3_cross_inplace as single calls.     *)

InitBlit ==
    /\ lut_q = [dst |-> 0, src |-> 0, x |-> 0] /\ lut_e = NoEntry
    /\ \E s_w \in 1..MaxSrc, s_h \in 1..MaxSrc, d_w \in 1..MaxDst, d_h \in 1..MaxDst :
         /\ sw = s_w /\ dw = d_w /\ dh = d_h
         /\ \E a \in 0..PatMax, b \in 0..PatMax, c \in 0..(Len(Palette) - 1) :
               src = Pattern(s_w, s_h, a, b, 0, c)
         /\ \/ lut = build_scale_lut(d_w, d_h, s_w, s_h)
            \/ \E p \in 0..(s_w - 1), q \in 0..(s_h - 1), k \in 0..(Len(Weights) - 1) :
                  lut = AnyLut(d_w, d_h, s_w, s_h, p, q, k)
         /\ dst = Uniform(d_w, d_h, 0)
    /\ snap = <<>> /\ cursor = <<>> /\ stage = "blit_call"
    /\ blend = NoBlend
    /\ AppIdle /\ RenderIdle

Blit ==
    /\ stage = "blit_call"
    /\ dst' = blit_bilinear_stretch(dst, dw, src, sw, lut)
    /\ stage' = "blit_done"
    /\ UNCHANGED <<blend, lut_q, lut_e, src, sw, lut, dw, dh, snap, cursor, appVars, renderVars>>

InitSharpen ==
    /\ lut_q = [dst |-> 0, src |-> 0, x |-> 0] /\ lut_e = NoEntry
    /\ src = <<>> /\ sw = 0 /\ lut = ScaleLutEmpty
    /\ \E w \in 1..MaxW, h \in 1..MaxH :
         /\ dw = w /\ dh = h
         /\ \E a \in 0..PatMax, b \in 0..PatMax, d \in 0..1, c \in 0..(Len(Palette) - 1) :
               dst = Pattern(w, h, a, b, d, c)
    /\ snap = dst /\ cursor = <<>> /\ stage = "sharpen_call"
    /\ blend = NoBlend
    /\ AppIdle /\ RenderIdle

\* snap keeps the buffer as it was when the call was made
Sharpen ==
    /\ stage = "sharpen_call"
    /\ dst' = sharpen3x3_cross_inplace(dst, dw, dh)
    /\ snap' = dst
    /\ stage' = "sharpen_done"
    /\ UNCHANGED <<blend, lut_q, lut_e, src, sw, lut, dw, dh, cursor, appVars, renderVars>>

----------------------------------------------------------------------------
(* camera.rs and renderer.rs.                                              *)
(*                                                                         *)
(* Lengths are in units of the near-plane constant (0.1), so NEAR is 1.    *)
(* The f32 values of the renderer are kept as exact fractions: a           *)
(* camera-space point is [x, y, d] for (cx, cy) = (x/d, y/d) with d > 0,   *)
(* a screen coordinate or an inverse depth is [n, d] for n/d with d > 0.   *)
(* yaw is a number of quarter turns, for which cos and sin are exact.      *)

NEAR == 1

RECURSIVE GCD(_, _)
GCD(a, b) == IF b = 0 THEN a ELSE GCD(b, a % b)

\* n/d with d # 0, brought to a positive denominator and lowest terms
Frac(n, d) ==
    LET g == GCD(Abs(n), Abs(d))
        k == IF d < 0 THEN 0 - g ELSE g
    IN  [n |-> n \div k, d |-> d \div k]

Cos(q) == <<1, 0, 0 - 1, 0>>[(q % 4) + 1]
Sin(q) == <<0, 1, 0, 0 - 1>>[(q % 4) + 1]

\* Camera::world_to_camera
world_to_camera(cam, p) ==
    LET dx == p[1] - cam.pos[1]
        dy == p[2] - cam.pos[2]
        c  == Cos(cam.yaw)
        sn == Sin(cam.yaw)
    IN  [x |-> dx * c - dy * sn, y |-> dx * sn + dy * c, d |-> 1]

\* Camera::project_x: fx * (cx / cy) + 0.5 * screen_width, for cy > 0
project_x(cam, p, screen_width) ==
    Frac(2 * cam.fx * p.x + screen_width * p.y, 2 * p.y)

\* twice the forward depth of the wall's midpoint in camera space
wall_depth_cam_space(cam, start, end) ==
    world_to_camera([cam EXCEPT !.pos = <<2 * cam.pos[1], 2 * cam.pos[2]>>],
                    <<start[1] + end[1], start[2] + end[2]>>).y

\* the part of clip_line_near that moves endpoint a onto the near plane
\* along the segment a -> b (both given with d = 1, b in front of the plane)
clip_endpoint(a, b) ==
    LET den == b.y - a.y
        g   == GCD(Abs(a.x * den + (NEAR - a.y) * (b.x - a.x)), den)
    IN  [x |-> (a.x * den + (NEAR - a.y) * (b.x - a.x)) \div g,
         y |-> NEAR * (den \div g),
         d |-> den \div g]

\* the endpoint is moved to half the near-plane depth
clip_line_near_half(p0, p1) ==
    LET in0 == p0.y > NEAR * p0.d
        in1 == p1.y > NEAR * p1.d
        half(p) == [p EXCEPT !.x = 2 * p.x, !.y = p.y, !.d = 2 * p.d]
    IN  IF ~in0 /\ ~in1 THEN [ok |-> FALSE, p0 |-> p0, p1 |-> p1]
        ELSE IF ~in0 /\ in1 THEN [ok |-> TRUE, p0 |-> half(clip_endpoint(p0, p1)), p1 |-> p1]
        ELSE IF in0 /\ ~in1 THEN [ok |-> TRUE, p0 |-> p0, p1 |-> half(clip_endpoint(p1, p0))]
        ELSE [ok |-> TRUE, p0 |-> p0, p1 |-> p1]

\* clip_line_near: the returned flag and the two endpoints
clip_line_near(p0, p1) ==
    LET in0 == p0.y > NEAR * p0.d
        in1 == p1.y > NEAR * p1.d
    IN  IF ~in0 /\ ~in1 THEN [ok |-> FALSE, p0 |-> p0, p1 |-> p1]
        ELSE IF ~in0 /\ in1 THEN [ok |-> TRUE, p0 |-> clip_endpoint(p0, p1), p1 |-> p1]
        ELSE IF in0 /\ ~in1 THEN [ok |-> TRUE, p0 |-> p0, p1 |-> clip_endpoint(p1, p0)]
        ELSE [ok |-> TRUE, p0 |-> p0, p1 |-> p1]

\* floor of the fraction f as an i32
FloorFrac(f) == FloorDiv(f.n, f.d)

\* the rows are not clamped to the screen
wall_column_unclamped(cam, sector, height, p0, p1, sx_left, sx_right, xi) ==
    LET alpha  == Frac((xi * sx_left.d - sx_left.n) * sx_right.d,
                       sx_right.n * sx_left.d - sx_left.n * sx_right.d)
        inv_cy == Frac(p0.d * alpha.d * p1.y + alpha.n * (p1.d * p0.y - p0.d * p1.y),
                       alpha.d * p0.y * p1.y)
        top    == [n |-> height * inv_cy.d - 2 * cam.fy * inv_cy.n * (sector.ceiling_z - cam.eye_z),
                   d |-> 2 * inv_cy.d]
        bottom == [n |-> height * inv_cy.d - 2 * cam.fy * inv_cy.n * (sector.floor_z - cam.eye_z),
                   d |-> 2 * inv_cy.d]
        t      == FloorFrac(top)
        b      == FloorFrac(bottom)
    IN  [y0 |-> Min(t, b), y1 |-> Max(t, b)]

\* the rows [y0, y1] draw_solid_wall fills in column xi, the endpoints p0
\* (left) and p1 (right) being in sync with the column order
wall_column(cam, sector, height, p0, p1, sx_left, sx_right, xi) ==
    LET alpha  == Frac((xi * sx_left.d - sx_left.n) * sx_right.d,
                       sx_right.n * sx_left.d - sx_left.n * sx_right.d)
        \* inv_lerp(1/cy0, 1/cy1, alpha)
        inv_cy == Frac(p0.d * alpha.d * p1.y + alpha.n * (p1.d * p0.y - p0.d * p1.y),
                       alpha.d * p0.y * p1.y)
        top    == [n |-> height * inv_cy.d - 2 * cam.fy * inv_cy.n * (sector.ceiling_z - cam.eye_z),
                   d |-> 2 * inv_cy.d]
        bottom == [n |-> height * inv_cy.d - 2 * cam.fy * inv_cy.n * (sector.floor_z - cam.eye_z),
                   d |-> 2 * inv_cy.d]
        t      == FloorFrac(top)
        b      == FloorFrac(bottom)
    IN  [y0 |-> Max(Min(t, b), 0), y1 |-> Min(Max(t, b), height - 1)]

NoDraw == [cols |-> {}, rows |-> <<>>, divisors |-> {}, clipped |-> FALSE]

\* draw_solid_wall up to its column loop: the columns x0..x1 it fills, the
\* rows filled in each, the forward depths it has divided by, and whether
\* an endpoint was clipped
wall_columns(cam, wall, sector, width, height) ==
    LET q0 == world_to_camera(cam, wall.start)
        q1 == world_to_camera(cam, wall.end)
        left(p)  == 2 * cam.fx * p.x < 0 - p.y * width
        right(p) == 2 * cam.fx * p.x > p.y * width
    IN  IF q0.y <= NEAR /\ q1.y <= NEAR THEN NoDraw
        ELSE IF (left(q0) /\ left(q1)) \/ (right(q0) /\ right(q1)) THEN NoDraw
        ELSE
        LET cl == clip_line_near(q0, q1)
        IN  IF ~cl.ok THEN NoDraw
            ELSE
            LET sx0  == project_x(cam, cl.p0, width)
                sx1  == project_x(cam, cl.p1, width)
                divs == {<<cl.p0.y, cl.p0.d>>, <<cl.p1.y, cl.p1.d>>}
                was_clipped == ~(q0.y > NEAR * q0.d) \/ ~(q1.y > NEAR * q1.d)
                early == [NoDraw EXCEPT !.divisors = divs, !.clipped = was_clipped]
            IN  IF 2 * Abs(sx0.n * sx1.d - sx1.n * sx0.d) < sx0.d * sx1.d THEN early
                ELSE
                LET swap == FloorFrac(sx0) > FloorFrac(sx1)
                    p0   == IF swap THEN cl.p1 ELSE cl.p0
                    p1   == IF swap THEN cl.p0 ELSE cl.p1
                    x0   == Max(Min(FloorFrac(sx0), FloorFrac(sx1)), 0)
                    x1   == Min(Max(FloorFrac(sx0), FloorFrac(sx1)), width - 1)
                    sx_left  == project_x(cam, p0, width)
                    sx_right == project_x(cam, p1, width)
                    span == sx_right.n * sx_left.d - sx_left.n * sx_right.d
                IN  IF x0 >= x1 THEN early
                    ELSE IF Abs(span) <= (sx_left.d * sx_right.d - 1) \div 8388608 THEN early
                    ELSE [cols     |-> x0..x1,
                          rows     |-> [xi \in x0..x1 |->
                                          wall_column(cam, sector, height, p0, p1,
                                                      sx_left, sx_right, xi)],
                          divisors |-> divs,
                          clipped  |-> was_clipped]

----------------------------------------------------------------------------
(* render_frame, one phase per step: the clear (with the early return, or  *)
(* the sentinels and the depth sort), one draw_solid_wall call per wall,   *)
(* the backfill.                                                           *)

RW == 8
RH == 8
MaxWalls == 2

SKY == pack_rgb(30, 30, 70)
GROUND == pack_rgb(40, 40, 40)
CEIL_COLOR == pack_rgb(200, 200, 200)
FLOOR_COLOR == pack_rgb(30, 30, 70)

wall_colors ==
    <<pack_rgb(200, 200, 200), pack_rgb(180, 180, 250),
      pack_rgb(250, 180, 180), pack_rgb(180, 250, 180)>>

\* the colour of the wall at (1-based) position i of world.walls
WallColor(i) == wall_colors[((i - 1) % Len(wall_colors)) + 1]

Wall(a, b, c, d, sector) ==
    [start |-> <<a, b>>, end |-> <<c, d>>, front_sector |-> sector]

\* the walls scenes are made of: frontal, slanted, reversed, edge-on,
\* crossing the near plane, ending on it, behind it, outside the frustum
WallSet ==
    {Wall(0 - 2, 4, 2, 4, 0), Wall(0 - 6, 8, 6, 8, 1), Wall(0, 2, 6, 12, 0),
     Wall(0 - 2, 0 - 2, 2, 4, 0), Wall(0 - 2, 0 - 3, 2, 0 - 1, 0),
     Wall(0 - 9, 2, 0 - 8, 3, 0), Wall(3, 2, 3, 8, 1), Wall(2, 6, 0 - 2, 6, 0),
     Wall(0, 2, 0, 8, 0), Wall(0 - 2, 1, 2, 5, 1), Wall(4, 0 - 1, 0 - 3, 6, 0),
     Wall(0 - 3, 3, 1, 3, 2)}

Sectors ==
    <<[floor_z |-> 0, ceiling_z |-> 4], [floor_z |-> 0 - 2, ceiling_z |-> 7],
      [floor_z |-> 3, ceiling_z |-> 5]>>

Cameras ==
    {[pos |-> <<0, 0>>, yaw |-> 0, eye_z |-> 2, fx |-> 4, fy |-> 4],
     [pos |-> <<1, 0 - 2>>, yaw |-> 0, eye_z |-> 2, fx |-> 4, fy |-> 3],
     [pos |-> <<0 - 6, 4>>, yaw |-> 1, eye_z |-> 1, fx |-> 4, fy |-> 4]}

RECURSIVE SeqsUpTo(_, _)
SeqsUpTo(S, n) ==
    IF n = 0 THEN {<<>>}
    ELSE LET shorter == SeqsUpTo(S, n - 1)
         IN  shorter \cup {Append(q, e) : q \in shorter, e \in S}

InitRender ==
    /\ \E c \in {0, 16777215} : buf = Uniform(RW, RH, c)
    /\ \E ws \in SeqsUpTo(WallSet, MaxWalls) : world = [sectors |-> Sectors, walls |-> ws]
    /\ camera \in Cameras
    /\ ceil_clip = <<>> /\ floor_clip = <<>>
    /\ order = <<>> /\ oi = 0
    /\ spans = [i \in 1..Len(world.walls) |-> NoDraw]
    /\ rpc = "clear"
    /\ ScalerIdle /\ AppIdle

\* the order sorts nearest first
sort_order_nearest_first(cam, walls) ==
    LET depth(i) == wall_depth_cam_space(cam, walls[i].start, walls[i].end)
        before(j, i) == depth(j) < depth(i) \/ (depth(j) = depth(i) /\ j < i)
    IN  [k \in 1..Len(walls) |->
            CHOOSE i \in 1..Len(walls) :
                Cardinality({j \in 1..Len(walls) : before(j, i)}) = k - 1]

\* order.sort_by(db.partial_cmp(&da)): farthest first, a stable sort
sort_order(cam, walls) ==
    LET depth(i) == wall_depth_cam_space(cam, walls[i].start, walls[i].end)
        before(j, i) == depth(j) > depth(i) \/ (depth(j) = depth(i) /\ j < i)
    IN  [k \in 1..Len(walls) |->
            CHOOSE i \in 1..Len(walls) :
                Cardinality({j \in 1..Len(walls) : before(j, i)}) = k - 1]

\* the clear of render_frame
clear_frame(width, height) ==
    [i \in 1..(width * height) |-> IF (i - 1) \div width < height \div 2 THEN SKY ELSE GROUND]

RenderClear ==
    /\ rpc = "clear"
    /\ buf' = clear_frame(RW, RH)
    /\ IF world.walls = <<>>
       THEN /\ rpc' = "done"
            /\ UNCHANGED <<ceil_clip, floor_clip, order, oi>>
       ELSE /\ ceil_clip' = [x \in 1..RW |-> RH]
            /\ floor_clip' = [x \in 1..RW |-> 0 - 1]
            /\ order' = sort_order(camera, world.walls)
            /\ oi' = 1
            /\ rpc' = "walls"
    /\ UNCHANGED <<world, camera, spans, scalerVars, appVars>>

\* one iteration of `for i in order`: draw_solid_wall
DrawWall ==
    /\ rpc = "walls"
    /\ LET i      == order[oi]
           wall   == world.walls[i]
           sector == world.sectors[wall.front_sector + 1]
           r      == wall_columns(camera, wall, sector, RW, RH)
       IN  /\ buf' = [k \in 1..Len(buf) |->
                        LET x == (k - 1) % RW
                            y == (k - 1) \div RW
                        IN  IF x \in r.cols /\ r.rows[x].y0 <= y /\ y <= r.rows[x].y1
                            THEN WallColor(i) ELSE buf[k]]
           /\ ceil_clip' = [x \in 1..RW |->
                              IF (x - 1) \in r.cols /\ r.rows[x - 1].y0 < ceil_clip[x]
                              THEN r.rows[x - 1].y0 ELSE ceil_clip[x]]
           /\ floor_clip' = [x \in 1..RW |->
                               IF (x - 1) \in r.cols /\ r.rows[x - 1].y1 > floor_clip[x]
                               THEN r.rows[x - 1].y1 ELSE floor_clip[x]]
           /\ spans' = [spans EXCEPT ![i] = r]
    /\ oi' = oi + 1
    /\ rpc' = IF oi = Len(order) THEN "backfill" ELSE "walls"
    /\ UNCHANGED <<world, camera, order, scalerVars, appVars>>

\* the floor fill starts at row floor_clip[x] itself
backfill_pixel_from_fc(cc, fc, y, height, old) ==
    IF cc >= height /\ fc < 0 THEN old
    ELSE LET ceiled == IF cc < height /\ y < Clamp(cc, 0, height) THEN CEIL_COLOR ELSE old
         IN  IF fc >= 0 /\ y >= Clamp(fc, 0 - 1, height - 1) THEN FLOOR_COLOR ELSE ceiled

\* the post fill of one pixel of a column with clips cc and fc
backfill_pixel(cc, fc, y, height, old) ==
    IF cc >= height /\ fc < 0 THEN old
    ELSE LET ceiled == IF cc < height /\ y < Clamp(cc, 0, height) THEN CEIL_COLOR ELSE old
         IN  IF fc >= 0 /\ y >= Clamp(fc, 0 - 1, height - 1) + 1 THEN FLOOR_COLOR ELSE ceiled

Backfill ==
    /\ rpc = "backfill"
    /\ buf' = [k \in 1..Len(buf) |->
                 LET x == (k - 1) % RW
                     y == (k - 1) \div RW
                 IN  backfill_pixel(ceil_clip[x + 1], floor_clip[x + 1], y, RH, buf[k])]
    /\ rpc' = "done"
    /\ UNCHANGED <<world, camera, ceil_clip, floor_clip, order, oi, spans, scalerVars, appVars>>

NextRender ==
    \/ RenderClear
    \/ DrawWall
    \/ Backfill

----------------------------------------------------------------------------
(* Claims about the sharpen filter (SpecSharpen).                          *)

\* C2 as stated: sharpening a buffer whose pixels all equal one colour word
\* C, for every 32-bit word C, leaves every pixel equal to C.
C2_UniformAnyWord ==
    (stage = "sharpen_done" /\ \E c \in 0..(Len(Palette) - 1) : IsUniform(snap, Palette[c + 1]))
        => dst = snap

\* C2 amended: sharpening a buffer whose pixels all equal one colour word C
\* with byte3 = 0 leaves every pixel equal to C; for a word with byte3 # 0
\* the interior pixels come out as C with byte3 cleared.
C2_UniformNoOp ==
    stage = "sharpen_done" =>
        \A c \in 0..(Len(Palette) - 1) :
            IsUniform(snap, Palette[c + 1]) =>
                /\ Byte3(Palette[c + 1]) = 0 => dst = snap
                /\ \A i \in 1..Len(dst) : dst[i] \in {Palette[c + 1], Palette[c + 1] % 16777216}

C2_Witness ==
    /\ stage = "sharpen_done" /\ dw >= 3 /\ dh >= 3
    /\ IsUniform(snap, pack_rgb(30, 30, 70))
    /\ dst = snap

\* C3: after sharpen3x3_cross_inplace every pixel of row 0, row h-1,
\* column 0 and column w-1 holds the value it had before the call, whatever
\* the buffer held and whatever w and h are.
C3_BordersKept ==
    stage = "sharpen_done" =>
        /\ Len(dst) = Len(snap)
        /\ \A i \in 1..Len(dst) :
              LET x == (i - 1) % dw
                  y == (i - 1) \div dw
              IN  (y = 0 \/ y = dh - 1 \/ x = 0 \/ x = dw - 1) => dst[i] = snap[i]

\* the filter ran on a buffer with an interior and changed a pixel of it
C3_Witness ==
    /\ stage = "sharpen_done" /\ dw >= 3 /\ dh >= 3
    /\ \E i \in 1..Len(dst) : dst[i] # snap[i]

\* channel k (0 blue, 1 green, 2 red) of a colour word
Channel(word, k) == (word \div Pow2(8 * k)) % 256

\* 5*center - (north + south + east + west) in channel k at (x, y) of b
CrossSum(b, w, x, y, k) ==
    5 * Channel(b[y * w + x + 1], k)
        - ( Channel(b[(y - 1) * w + x + 1], k) + Channel(b[(y + 1) * w + x + 1], k)
          + Channel(b[y * w + x + 2], k) + Channel(b[y * w + x], k) )

\* C11: for w >= 3 and h >= 3 every interior pixel (1 <= x <= w-2,
\* 1 <= y <= h-2) after sharpen3x3_cross_inplace has, in each of the blue,
\* green and red channels, the value clamp(5*center - (north + south + east
\* + west), 0, 255), the five samples being the values the buffer held
\* before the call; when w < 3 or h < 3 the buffer is left unchanged.
C11_InteriorKernel ==
    stage = "sharpen_done" =>
        IF dw < 3 \/ dh < 3 THEN dst = snap
        ELSE \A x \in 1..(dw - 2), y \in 1..(dh - 2), k \in 0..2 :
                Channel(dst[y * dw + x + 1], k)
                    = Max(0, Min(255, CrossSum(snap, dw, x, y, k)))

\* the filter ran on a buffer with several interior pixels, and among the
\* channel sums one was negative, one above 255 and one in between that
\* differs from the centre sample
C11_Witness ==
    /\ stage = "sharpen_done" /\ dw >= 4 /\ dh >= 3
    /\ \E x \in 1..(dw - 2), y \in 1..(dh - 2), k \in 0..2 : CrossSum(snap, dw, x, y, k) < 0
    /\ \E x \in 1..(dw - 2), y \in 1..(dh - 2), k \in 0..2 : CrossSum(snap, dw, x, y, k) > 255
    /\ \E x \in 1..(dw - 2), y \in 1..(dh - 2), k \in 0..2 :
          /\ CrossSum(snap, dw, x, y, k) \in 1..254
          /\ CrossSum(snap, dw, x, y, k) # Channel(snap[y * dw + x + 1], k)
          /\ Channel(dst[y * dw + x + 1], k) = CrossSum(snap, dw, x, y, k)

----------------------------------------------------------------------------
(* Claims about the bilinear blit (SpecBlit).                              *)

\* C4 as stated: for any LUT and any colour word C, the blit of a source
\* whose pixels all equal C writes C to every destination pixel.
C4_UniformAnyWord ==
    stage = "blit_done" =>
        \A c \in 0..(Len(Palette) - 1) :
            IsUniform(src, Palette[c + 1]) => IsUniform(dst, Palette[c + 1])

\* C4 amended: for any LUT with in-range neighbour indices and weights in
\* 0..256 and any colour word C with byte3 = 0, the blit of a source whose
\* pixels all equal C writes C to every destination pixel; for a word with
\* byte3 # 0 it writes C with byte3 cleared.
C4_UniformBlit ==
    stage = "blit_done" =>
        \A c \in 0..(Len(Palette) - 1) :
            IsUniform(src, Palette[c + 1]) => IsUniform(dst, Palette[c + 1] % 16777216)

\* a uniform non-black source went through a LUT with a proper blend weight
C4_Witness ==
    /\ stage = "blit_done"
    /\ IsUniform(src, pack_rgb(200, 200, 200))
    /\ LutInRange(lut, dw, dh, sw, Len(src) \div sw)
    /\ \E x \in 1..dw : lut.wx[x] = 77 /\ lut.x0[x] # lut.x1[x]
    /\ IsUniform(dst, pack_rgb(200, 200, 200))

----------------------------------------------------------------------------
(* Claims about the colour blend (SpecLerp).                               *)

\* C12: for all colour words a, b with byte3 = 0 and every weight w in
\* 0..256, each of the blue, green and red bytes of lerp_color_u32(a, b, w)
\* is (a_ch*(256-w) + b_ch*w) >> 8 of that channel alone: nothing carries
\* from one channel into another, and the packed red/blue multiply-add does
\* not overflow 32 bits.
C12_PerChannelBlend ==
    stage = "lerp_done" =>
        /\ blend.out \in 0..16777215
        /\ \A k \in 0..2 :
              Channel(blend.out, k)
                  = (Channel(blend.a, k) * (256 - blend.w256)
                        + Channel(blend.b, k) * blend.w256) \div 256
        /\ ~blend.overflow
        /\ Channel(blend.a, 0) * (256 - blend.w256) + Channel(blend.b, 0) * blend.w256 < 65536

\* white blended into the sky colour with a proper weight
C12_Witness ==
    /\ stage = "lerp_done"
    /\ blend.a = 16777215 /\ blend.b = pack_rgb(30, 30, 70) /\ blend.w256 = 77
    /\ blend.out = pack_rgb(187, 187, 199)

----------------------------------------------------------------------------
(* Claims about the LUT builder (SpecLut).                                 *)

\* C5: build_scale_lut(N, M, N, M) yields, on either axis and for every
\* destination index i, lower-neighbour index i and blend weight 0.
C5_IdentityLut ==
    (stage = "lut_done" /\ lut_q.dst = lut_q.src) =>
        (lut_e.i0 = lut_q.x /\ lut_e.w = 0)

\* floor(x * src / dst); the sizes beyond 2^24 are tried with src = dst only
ExactLower(x, dst_size, src_size) ==
    IF dst_size = src_size THEN x ELSE (x * src_size) \div dst_size

\* C13: for all positive dst and src sizes and every destination index i of
\* an axis, build_scale_lut yields the lower index floor(i*src/dst) with
\* 0 <= lower <= src-1, the upper index min(lower+1, src-1) and a weight in
\* 0..256, so that the four source reads of blit_bilinear_stretch are inside
\* the source buffer.
C13_LutInBounds ==
    stage = "lut_done" =>
        /\ lut_e.i0 = ExactLower(lut_q.x, lut_q.dst, lut_q.src)
        /\ 0 <= lut_e.i0 /\ lut_e.i0 <= lut_q.src - 1
        /\ lut_e.i1 = Min(lut_e.i0 + 1, lut_q.src - 1)
        /\ lut_e.w \in 0..256


----------------------------------------------------------------------------
(* The two stages as rayon runs them: dst.par_chunks_mut(w).enumerate()    *)
(* hands every row of the destination to a row worker; the workers run in  *)
(* any order and interleave pixel by pixel; for_each returns when all of   *)
(* them have finished.  The stages follow each other as in                 *)
(* App::window_event (RedrawRequested).                                    *)

ParW == 4
ParH == 3
ParSrc == 2

\* the rows are 1-based here: worker y owns dst[RowBase(y, w) + 1 .. RowBase(y, w) + w]
RowBase(y, w) == (y - 1) * w

\* a sharpen worker reads the buffer as it is being written
sharpen_reads_inplace(snapshot, out) == out

\* what a sharpen worker reads: the snapshot taken before the fork
sharpen_reads(snapshot, out) == snapshot

\* the column a row worker of the sharpen stage stores at its k-th store:
\* a border row is copied left to right; an interior row stores column 0,
\* then column w-1, then columns 1..w-2
SharpenColumn(y, k, w, h) ==
    IF y = 1 \/ y = h THEN k
    ELSE IF k = 0 THEN 0
    ELSE IF k = 1 THEN w - 1
    ELSE k - 1

InitPar ==
    /\ lut_q = [dst |-> 0, src |-> 0, x |-> 0] /\ lut_e = NoEntry
    /\ sw = ParSrc
    /\ \E a \in 0..1, c \in 0..(Len(Palette) - 1) : src = Pattern(ParSrc, ParSrc, a, 1, 1, c)
    /\ \E d_w \in 2..ParW, d_h \in 2..ParH :
         /\ dw = d_w /\ dh = d_h
         /\ lut = build_scale_lut(d_w, d_h, ParSrc, ParSrc)
         /\ \E c \in {0, 1} : dst = Uniform(d_w, d_h, Palette[c + 1])
         /\ cursor = [y \in 1..d_h |-> 0]
    /\ snap = <<>>
    /\ stage = "blit"
    /\ blend = NoBlend
    /\ AppIdle /\ RenderIdle

BlitWorker(y) ==
    /\ stage = "blit"
    /\ cursor[y] < dw
    /\ dst' = [dst EXCEPT ![RowBase(y, dw) + cursor[y] + 1] =
                   blit_pixel(src, sw, lut, cursor[y], y - 1)]
    /\ cursor' = [cursor EXCEPT ![y] = @ + 1]
    /\ UNCHANGED <<blend, lut_q, lut_e, src, sw, lut, dw, dh, snap, stage, appVars, renderVars>>

\* for_each returns: blit_bilinear_stretch is over, sharpen3x3_cross_inplace is called
BlitJoin ==
    /\ stage = "blit"
    /\ \A y \in 1..dh : cursor[y] = dw
    /\ stage' = "sharpen_call"
    /\ UNCHANGED <<blend, lut_q, lut_e, src, sw, lut, dst, dw, dh, snap, cursor, appVars, renderVars>>

\* the early return, or the snapshot and the fork
SharpenFork ==
    /\ stage = "sharpen_call"
    /\ IF dw < 3 \/ dh < 3
       THEN stage' = "done" /\ UNCHANGED <<snap, cursor>>
       ELSE /\ snap' = dst
            /\ cursor' = [y \in 1..dh |-> 0]
            /\ stage' = "sharpen"
    /\ UNCHANGED <<blend, lut_q, lut_e, src, sw, lut, dst, dw, dh, appVars, renderVars>>

SharpenWorker(y) ==
    /\ stage = "sharpen"
    /\ cursor[y] < dw
    /\ LET x == SharpenColumn(y, cursor[y], dw, dh)
       IN  dst' = [dst EXCEPT ![RowBase(y, dw) + x + 1] =
                       sharpen_pixel(sharpen_reads(snap, dst), dw, dh, x, y - 1)]
    /\ cursor' = [cursor EXCEPT ![y] = @ + 1]
    /\ UNCHANGED <<blend, lut_q, lut_e, src, sw, lut, dw, dh, snap, stage, appVars, renderVars>>

SharpenJoin ==
    /\ stage = "sharpen"
    /\ \A y \in 1..dh : cursor[y] = dw
    /\ stage' = "done"
    /\ UNCHANGED <<blend, lut_q, lut_e, src, sw, lut, dst, dw, dh, snap, cursor, appVars, renderVars>>

NextPar ==
    \/ \E y \in 1..dh : BlitWorker(y)
    \/ BlitJoin
    \/ SharpenFork
    \/ \E y \in 1..dh : SharpenWorker(y)
    \/ SharpenJoin

Row(b, y, w) == [x \in 1..w |-> b[RowBase(y, w) + x]]

\* the stages' results, whatever the interleaving was
ParResults ==
    /\ stage \in {"sharpen_call", "sharpen"} =>
          /\ \A y \in 1..dh : stage = "sharpen_call" => cursor[y] = dw
          /\ (IF stage = "sharpen" THEN snap ELSE dst)
                = blit_bilinear_stretch(dst, dw, src, sw, lut)
    /\ stage = "done" =>
          /\ (dw >= 3 /\ dh >= 3) => \A y \in 1..dh : cursor[y] = dw
          /\ dst = sharpen3x3_cross_inplace(
                       blit_bilinear_stretch(dst, dw, src, sw, lut), dw, dh)

\* a step stores into the rows of the workers that moved, and into no other
ParOwnRow ==
    \A y \in 1..dh : cursor'[y] = cursor[y] => Row(dst', y, dw) = Row(dst, y, dw)

\* C8: each row worker of the blit and of the sharpen writes only pixels of
\* its own row and reads only the source and LUT or the snapshot, so after
\* the join the buffer is what processing the rows one after another gives,
\* for every interleaving, and a stage is over only when all its workers are.
C8_RowWorkers == [](ParResults) /\ [][ParOwnRow]_vars

\* both stages ran to their joins, interior rows finishing before the borders
C8_Witness ==
    /\ stage = "done" /\ dw >= 3 /\ dh >= 3
    /\ dst # snap

----------------------------------------------------------------------------
(* main.rs: the event driver.                                              *)
(*                                                                         *)
(* yaw is kept in units of pi/1000 radians: turning at turn_speed = pi     *)
(* rad/s for dt milliseconds changes it by dt units, and PI is 1000 units. *)
(* scale_lut is kept as the arguments of the build_scale_lut call that     *)
(* made it (the table is a function of them); fb_small as its length.      *)
(* The window is None or Some(inner size): the size changes when the       *)
(* window is created and when a Resized event is delivered.                *)

PI == 1000
TARGET_H == 480
MIN_TARGET_W == 160
DT_CAP_MS == 100

MaxKeysDown == 2
MaxFrames == 1

KeyCodes == {"KeyW", "KeyA", "KeyQ", "KeyE"}

\* inner sizes a window is created with or resized to
WinSizes ==
    {<<800, 600>>, <<1600, 1200>>, <<1001, 333>>, <<100, 700>>, <<0, 300>>}

\* elapsed milliseconds between two ticks
DtSet == {0, 100, 250}

\* camera positions told apart
PosGrid == {<<0, 0>>, <<1, 2>>}

LutFor(dst_w, dst_h, src_w, src_h) ==
    [dst_w |-> dst_w, dst_h |-> dst_h, src_w |-> src_w, src_h |-> src_h]

\* Camera::set_fov_from_horizontal(width, height, 90.0), tan(45 deg) = 1
set_fov_from_horizontal(cam, width, height) ==
    LET fx == width \div 2
    IN  [cam EXCEPT !.fx = fx, !.fy = (fx * height) \div width]

\* the LUT is rebuilt only together with the internal buffer
rebuild_lut_only_on_realloc(a, dst_w, dst_h) ==
    LET aspect   == IF dst_h > 0 THEN F32Div(FromUsize(dst_w), FromUsize(dst_h))
                    ELSE FromUsize(1)
        rounded  == F32RoundToInt(F32Mul(FromUsize(TARGET_H), aspect))
        at_least == IF rounded < MIN_TARGET_W THEN MIN_TARGET_W ELSE rounded
        target_w == IF at_least % 2 # 0 THEN at_least + 1 ELSE at_least
        realloc  == target_w # a.fb_w \/ TARGET_H # a.fb_h
        fb_w     == IF realloc THEN target_w ELSE a.fb_w
        fb_h     == IF realloc THEN TARGET_H ELSE a.fb_h
    IN  [a EXCEPT !.fb_w = fb_w,
                  !.fb_h = fb_h,
                  !.fb_small = IF realloc THEN fb_w * fb_h ELSE @,
                  !.camera = set_fov_from_horizontal(@, fb_w, fb_h),
                  !.scale_lut = IF realloc \/ @ = LutFor(0, 0, 0, 0)
                                THEN LutFor(dst_w, dst_h, fb_w, fb_h) ELSE @]

\* App::rebuild_internal_fb_and_lut
rebuild_internal_fb_and_lut(a, dst_w, dst_h) ==
    LET aspect   == IF dst_h > 0 THEN F32Div(FromUsize(dst_w), FromUsize(dst_h))
                    ELSE FromUsize(1)
        rounded  == F32RoundToInt(F32Mul(FromUsize(TARGET_H), aspect))
        at_least == IF rounded < MIN_TARGET_W THEN MIN_TARGET_W ELSE rounded
        target_w == IF at_least % 2 # 0 THEN at_least + 1 ELSE at_least
        realloc  == target_w # a.fb_w \/ TARGET_H # a.fb_h
        fb_w     == IF realloc THEN target_w ELSE a.fb_w
        fb_h     == IF realloc THEN TARGET_H ELSE a.fb_h
    IN  [a EXCEPT !.fb_w = fb_w,
                  !.fb_h = fb_h,
                  !.fb_small = IF realloc THEN fb_w * fb_h ELSE @,
                  !.camera = set_fov_from_horizontal(@, fb_w, fb_h),
                  !.scale_lut = LutFor(dst_w, dst_h, fb_w, fb_h)]

\* only the wrap at +pi is made
wrap_yaw_upper_only(yaw) == IF yaw > PI THEN yaw - 2 * PI ELSE yaw

\* the two wraps of App::tick
wrap_yaw(yaw) ==
    LET y1 == IF yaw > PI THEN yaw - 2 * PI ELSE yaw
    IN  IF y1 < 0 - PI THEN y1 + 2 * PI ELSE y1

\* App::tick after dt_ms milliseconds; when the camera moves, its new
\* position (which depends on cos and sin of yaw) is new_pos
tick(a, dt_ms, new_pos) ==
    LET dt        == IF dt_ms > DT_CAP_MS THEN DT_CAP_MS ELSE dt_ms
        fwd       == (IF "KeyW" \in a.keys_down THEN 1 ELSE 0)
                     - (IF "KeyS" \in a.keys_down THEN 1 ELSE 0)
        strafe    == (IF "KeyD" \in a.keys_down THEN 1 ELSE 0)
                     - (IF "KeyA" \in a.keys_down THEN 1 ELSE 0)
        yaw_delta == (IF "KeyE" \in a.keys_down THEN 1 ELSE 0)
                     - (IF "KeyQ" \in a.keys_down THEN 1 ELSE 0)
        yaw       == wrap_yaw(a.camera.yaw + yaw_delta * dt)
        moves     == (fwd # 0 \/ strafe # 0) /\ dt > 0
    IN  [a EXCEPT !.camera.yaw = yaw,
                  !.camera.pos = IF moves THEN new_pos ELSE @]

\* App::default
InitApp ==
    /\ app = [window       |-> None,
              camera       |-> [pos |-> <<0, 0>>, yaw |-> 0, fx |-> 0, fy |-> 0],
              frame_counter |-> 0,
              fb_small     |-> 640 * 480,
              fb_w         |-> 640,
              fb_h         |-> 480,
              scale_lut    |-> LutFor(0, 0, 0, 0),
              keys_down    |-> {}]
    /\ frame = NoFrame
    /\ ScalerIdle /\ RenderIdle

\* ApplicationHandler::resumed: the window is created with some inner size
Resumed ==
    /\ \E size \in WinSizes :
         app' = [rebuild_internal_fb_and_lut(app, size[1], size[2])
                    EXCEPT !.window = <<size>>]
    /\ UNCHANGED <<frame, scalerVars, renderVars>>

\* WindowEvent::KeyboardInput
KeyPressed ==
    /\ \E code \in KeyCodes :
         /\ Cardinality(app.keys_down \cup {code}) <= MaxKeysDown
         /\ app' = [app EXCEPT !.keys_down = @ \cup {code}]
    /\ UNCHANGED <<frame, scalerVars, renderVars>>

KeyReleased ==
    /\ \E code \in KeyCodes : app' = [app EXCEPT !.keys_down = @ \ {code}]
    /\ UNCHANGED <<frame, scalerVars, renderVars>>

\* WindowEvent::Resized(new_size): the window has that inner size from now on
Resized ==
    /\ app.window # None
    /\ \E size \in WinSizes :
         app' = [rebuild_internal_fb_and_lut(app, size[1], size[2])
                    EXCEPT !.window = <<size>>]
    /\ UNCHANGED <<frame, scalerVars, renderVars>>

\* WindowEvent::RedrawRequested that returns before drawing: no window, an
\* event of another window, or a minimised window
RedrawSkipped ==
    /\ \E dt_ms \in DtSet, new_pos \in PosGrid, same_id \in BOOLEAN :
         /\ \/ app.window = None
            \/ ~same_id
            \/ app.window # None /\ (app.window[1][1] = 0 \/ app.window[1][2] = 0)
         /\ app' = tick(app, dt_ms, new_pos)
    /\ UNCHANGED <<frame, scalerVars, renderVars>>

\* WindowEvent::RedrawRequested that draws: tick, render_frame into
\* fb_small, blit into the surface buffer, sharpen, present
RedrawRendered ==
    /\ app.window # None
    /\ app.window[1][1] # 0 /\ app.window[1][2] # 0
    /\ \E dt_ms \in DtSet, new_pos \in PosGrid, fps_printed \in BOOLEAN :
         LET a == tick(app, dt_ms, new_pos)
         IN  /\ fps_printed \/ a.frame_counter < MaxFrames
             /\ app' = [a EXCEPT !.frame_counter = IF fps_printed THEN 0 ELSE @ + 1]
             /\ frame' = [rendered  |-> TRUE,
                          dw        |-> a.window[1][1],
                          dh        |-> a.window[1][2],
                          fb_w      |-> a.fb_w,
                          fb_h      |-> a.fb_h,
                          fb_small  |-> a.fb_small,
                          scale_lut |-> a.scale_lut,
                          fx        |-> a.camera.fx,
                          fy        |-> a.camera.fy]
    /\ UNCHANGED <<scalerVars, renderVars>>

NextApp ==
    \/ Resumed
    \/ KeyPressed
    \/ KeyReleased
    \/ Resized
    \/ RedrawSkipped
    \/ RedrawRendered

\* C9: whenever a frame is rendered, the LUT in use was built for the
\* destination size (dw, dh) the blit writes and for the internal buffer
\* size (fb_w, fb_h), fb_small has fb_w*fb_h pixels, and the camera's focal
\* factors are those set for (fb_w, fb_h).
C9_FrameUsesMatchingLut ==
    frame.rendered =>
        /\ frame.scale_lut = LutFor(frame.dw, frame.dh, frame.fb_w, frame.fb_h)
        /\ frame.fb_small = frame.fb_w * frame.fb_h
        /\ frame.fx * 2 = frame.fb_w
        /\ frame.fy * 2 = frame.fb_h
        /\ frame.fb_w >= MIN_TARGET_W /\ frame.fb_w % 2 = 0 /\ frame.fb_h = TARGET_H

\* a second frame rendered into a 1600x1200 window from the 640x480 internal buffer
C9_Witness ==
    /\ frame.rendered
    /\ frame.dw = 1600 /\ frame.dh = 1200
    /\ frame.fb_w = 640
    /\ app.frame_counter = 1

\* C10 as stated: after every tick, yaw lies in the half-open interval (-pi, pi].
C10_YawHalfOpen == app.camera.yaw > 0 - PI /\ app.camera.yaw <= PI

\* C10 amended: after every tick, yaw lies in the closed interval [-pi, pi];
\* -pi itself is reached by turning left from 0.
C10_YawClosed == app.camera.yaw >= 0 - PI /\ app.camera.yaw <= PI

\* turning left, yaw has wrapped through -pi to the positive side
C10_Witness ==
    /\ app.camera.yaw = PI - DT_CAP_MS
    /\ "KeyQ" \in app.keys_down /\ "KeyE" \notin app.keys_down
    /\ frame.rendered

----------------------------------------------------------------------------
(* Claims about the renderer (SpecRender).                                 *)

Pixel(b, x, y) == b[y * RW + x + 1]

CeilClip(x) == IF ceil_clip = <<>> THEN RH ELSE ceil_clip[x + 1]
FloorClip(x) == IF floor_clip = <<>> THEN 0 - 1 ELSE floor_clip[x + 1]

MidDepth(i) == wall_depth_cam_space(camera, world.walls[i].start, world.walls[i].end)

\* the position of wall i in the drawing order
DrawnAt(i) == CHOOSE k \in 1..Len(order) : order[k] = i

C6_NearerHidesFarther ==
    rpc = "done" =>
        \A a \in 1..Len(spans), b \in 1..Len(spans) :
            MidDepth(a) < MidDepth(b) =>
                \A x \in spans[a].cols \cap spans[b].cols :
                    /\ \E y \in 0..(RH - 1) : Pixel(buf, x, y) = WallColor(a)
                    /\ \A y \in 0..(RH - 1) : Pixel(buf, x, y) # WallColor(b)

\* C6 amended: of two walls with different midpoint depths the nearer one
\* is drawn after the farther one, and after render_frame every pixel
\* filled by the wall drawn last (the nearest one) holds that wall's colour;
\* the farther wall's colour can stay visible in an overlapping column
\* above or below the rows the nearer wall filled.
C6_NearerDrawnLast ==
    rpc = "done" /\ world.walls # <<>> =>
        /\ \A a \in 1..Len(spans), b \in 1..Len(spans) :
              MidDepth(a) < MidDepth(b) => DrawnAt(a) > DrawnAt(b)
        /\ LET n == order[Len(order)]
           IN  \A x \in spans[n].cols :
                  \A y \in spans[n].rows[x].y0..spans[n].rows[x].y1 :
                      Pixel(buf, x, y) = WallColor(n)

\* two walls at different midpoint depths overlap in a column where the
\* nearer one hides the farther one's rows
C6_Witness ==
    /\ rpc = "done" /\ Len(spans) = 2
    /\ \E a \in 1..2, b \in 1..2 :
          /\ MidDepth(a) < MidDepth(b)
          /\ \E x \in spans[a].cols \cap spans[b].cols :
                /\ spans[a].rows[x].y0 <= spans[b].rows[x].y0
                /\ spans[b].rows[x].y0 <= spans[b].rows[x].y1
                /\ spans[b].rows[x].y1 <= spans[a].rows[x].y1
                /\ \A y \in spans[b].rows[x].y0..spans[b].rows[x].y1 :
                      Pixel(buf, x, y) = WallColor(a)

\* the columns after render_frame
C7_Columns ==
    rpc = "done" =>
        \A x \in 0..(RW - 1) :
            IF CeilClip(x) = RH /\ FloorClip(x) = 0 - 1
            THEN \A y \in 0..(RH - 1) :
                    Pixel(buf, x, y) = IF y < RH \div 2 THEN SKY ELSE GROUND
            ELSE /\ CeilClip(x) < RH =>
                       \A y \in 0..(CeilClip(x) - 1) : Pixel(buf, x, y) = CEIL_COLOR
                 /\ FloorClip(x) >= 0 =>
                       \A y \in (FloorClip(x) + 1)..(RH - 1) : Pixel(buf, x, y) = FLOOR_COLOR

\* the backfill step leaves the rows between the clips as they are
C7_BackfillKeepsWalls ==
    rpc = "backfill" =>
        \A x \in 0..(RW - 1) :
            \A y \in CeilClip(x)..FloorClip(x) :
                y \in 0..(RH - 1) => Pixel(buf', x, y) = Pixel(buf, x, y)

\* C7: after render_frame a column no wall drew into (ceil_clip[x] still
\* height, floor_clip[x] still -1) holds the initial clear, sky above
\* height/2 and ground below; any other column holds the ceiling colour in
\* rows [0, ceil_clip[x]) when ceil_clip[x] < height and the floor colour in
\* rows (floor_clip[x], height) when floor_clip[x] >= 0; and the backfill
\* overwrites no row inside [ceil_clip[x], floor_clip[x]].
C7_Backfill == [](C7_Columns) /\ [][C7_BackfillKeepsWalls]_vars

\* a frame with a column left to the clear and a column with ceiling, wall
\* and floor
C7_Witness ==
    /\ rpc = "done"
    /\ \E x \in 0..(RW - 1) : CeilClip(x) = RH /\ FloorClip(x) = 0 - 1
    /\ \E x \in 0..(RW - 1) :
          /\ 0 < CeilClip(x) /\ CeilClip(x) <= FloorClip(x) /\ FloorClip(x) < RH - 1
          /\ Pixel(buf, x, CeilClip(x)) \notin {CEIL_COLOR, FLOOR_COLOR}

\* the clips stay between their sentinels and the screen's rows
C14_ClipRange ==
    ceil_clip # <<>> =>
        \A x \in 1..RW :
            /\ 0 <= ceil_clip[x] /\ ceil_clip[x] <= RH
            /\ 0 - 1 <= floor_clip[x] /\ floor_clip[x] <= RH - 1

\* every pixel a draw_solid_wall call has stored is on the screen
C14_WritesInside ==
    \A i \in 1..Len(spans) :
        \A x \in spans[i].cols :
            /\ 0 <= x /\ x <= RW - 1
            /\ spans[i].rows[x].y0 <= spans[i].rows[x].y1 =>
                  (0 <= spans[i].rows[x].y0 /\ spans[i].rows[x].y1 <= RH - 1)

\* a draw_solid_wall call moves no ceiling clip down and no floor clip up
C14_ClipsMonotone ==
    rpc = "walls" =>
        \A x \in 1..RW :
            ceil_clip'[x] <= ceil_clip[x] /\ floor_clip'[x] >= floor_clip[x]

\* C14: throughout render_frame, after any sequence of draw_solid_wall
\* calls, every column x has 0 <= ceil_clip[x] <= height and
\* -1 <= floor_clip[x] <= height-1; a draw_solid_wall call never increases
\* ceil_clip[x] and never decreases floor_clip[x]; and every buffer write of
\* draw_solid_wall is at a column in [0, width-1] and a row in [0, height-1].
C14_ClipsAndWrites ==
    [](C14_ClipRange /\ C14_WritesInside) /\ [][C14_ClipsMonotone]_vars

\* two walls drew into one column, the second call widening both clips of
\* the first up to the screen's edges
C14_Witness ==
    /\ rpc = "backfill" /\ Len(order) = 2
    /\ \E x \in spans[order[1]].cols \cap spans[order[2]].cols :
          LET first  == spans[order[1]].rows[x]
              second == spans[order[2]].rows[x]
          IN  /\ 0 < first.y0 /\ first.y0 <= first.y1 /\ first.y1 < RH - 1
              /\ second.y0 = 0 /\ second.y1 = RH - 1
              /\ ceil_clip[x + 1] = 0 /\ floor_clip[x + 1] = RH - 1

----------------------------------------------------------------------------
(* The specifications.                                                     *)

SpecLut == InitLut /\ [][LutStore]_vars
SpecLerp == InitLerp /\ [][Lerp]_vars
SpecBlit == InitBlit /\ [][Blit]_vars
SpecSharpen == InitSharpen /\ [][Sharpen]_vars
SpecPar == InitPar /\ [][NextPar]_vars
SpecApp == InitApp /\ [][NextApp]_vars
SpecRender == InitRender /\ [][NextRender]_vars

====
